---- MODULE Spec2Model ----
(***************************************************************************)
(* Model of funq's interactive picker, server/libFunq/pick.cpp:            *)
(*   - the scene-graph picker findQuickItemAt with its helpers,            *)
(*   - the resolver Pick::computeHighlightTarget,                          *)
(*   - the highlight overlays and the event router Pick::handleEvent.      *)
(*                                                                         *)
(* Geometry.  Scene coordinates are qreal in the code.  The model keeps    *)
(* them on a half-pixel grid: every item coordinate and every scene point  *)
(* is an integer number of half pixels (h).  Rectangle centres then fall   *)
(* on a quarter-pixel grid (q), and the comparisons of Euclidean distances *)
(* against kDistEps and kButtonBoostPx are decided exactly on the squared  *)
(* distances (operator SqrtLess); no rounding of the square root is        *)
(* modelled.  Item transforms are translations: an item's scene rectangle  *)
(* is stored directly.  Screen coordinates (QPoint, QRect) are integer     *)
(* pixels.                                                                 *)
(***************************************************************************)
EXTENDS Integers, Sequences, FiniteSets, TLC

VARIABLES
    items,             \* the QQuickItem tree: item id -> attributes
    envLargest,        \* value of the environment variable FUNQ_MODE_PICK_LARGEST
    pick,              \* the last call of findQuickItemAt made from outside, with its result
    appKind,           \* QCoreApplication::instance(): "widgets", "gui" or "core"
    windows,           \* QGuiApplication::topLevelWindows(), in enumeration order
    winVisible,        \* window -> QWindow::isVisible()
    widgetAlive,       \* the legacy widget exists
    m_handler,         \* Pick::m_handler is set
    overlay,           \* the state of *m_highlightOverlay: visible, geometry
    m_highlightTarget, \* Pick::m_highlightTarget
    m_highlightPos,    \* Pick::m_highlightPos
    reported,          \* the calls m_handler->handle(target, pos) of the last event
    last               \* the last event given to Pick::handleEvent, and what it met

NoItem == 0

----------------------------------------------------------------------------
(* Scene items *)

\* The shapes of the item tree: parentItem() of items 1, 2, 3, 4 (0 = none).
\* Item 4 is an item without a parent, outside the tree of item 1.
TreeShapes == { <<0, 1, 1, 0>>, <<0, 1, 2, 0>> }

Items == 1..4

\* Scene rectangles in half pixels.
Rect(x, y, w, h) == [x |-> x, y |-> y, w |-> w, h |-> h]

Point(x, y) == [x |-> x, y |-> y]

\* QQuickItem::isVisible(): the effective visibility, false as soon as the
\* item or one of its ancestors has visible = false.
RECURSIVE IsVisible(_)
IsVisible(i) ==
    /\ items[i].visible
    /\ items[i].parent # NoItem => IsVisible(items[i].parent)

\* QQuickItem::isEnabled(): the effective enabled state, inherited likewise.
RECURSIVE IsEnabled(_)
IsEnabled(i) ==
    /\ items[i].enabled
    /\ items[i].parent # NoItem => IsEnabled(items[i].parent)

\* item->contains(item->mapFromScene(scenePos)): the point, translated to
\* the item's origin, lies within [0, width) x [0, height).
Contains(i, p) ==
    LET lx == p.x - items[i].x
        ly == p.y - items[i].y
    IN  /\ 0 <= lx /\ lx < items[i].w
        /\ 0 <= ly /\ ly < items[i].h

\* candidate->mapRectToScene(candidate->boundingRect()).isEmpty()
RectIsEmpty(i) == items[i].w <= 0 \/ items[i].h <= 0

\* item->childItems(): the live children, in the order they were added
\* (ascending id).
ChildSet(i) == { c \in Items : items[c].alive /\ items[c].parent = i }

----------------------------------------------------------------------------
(* isButtonLike *)

\* Class names are kept as character sequences so that the substring test
\* is computed, not assumed.
Chars(cls) ==
    CASE cls = "QQuickRectangle" ->
           <<"Q","Q","u","i","c","k","R","e","c","t","a","n","g","l","e">>
      [] cls = "QQuickSwitch" ->
           <<"Q","Q","u","i","c","k","S","w","i","t","c","h">>
      [] cls = "QQuickToolButton" ->
           <<"Q","Q","u","i","c","k","T","o","o","l","B","u","t","t","o","n">>
      [] cls = "NavBUTTON_QMLTYPE_7" ->
           <<"N","a","v","B","U","T","T","O","N","_","Q","M","L","T","Y","P","E","_","7">>
      [] cls = "QQuickText" ->
           <<"Q","Q","u","i","c","k","T","e","x","t">>

\* The classes a class inherits, itself included (QObject::inherits).
SuperClasses(cls) ==
    CASE cls = "QQuickRectangle" -> {"QQuickRectangle", "QQuickItem", "QObject"}
      [] cls = "QQuickSwitch" ->
           {"QQuickSwitch", "QQuickAbstractButton", "QQuickControl", "QQuickItem", "QObject"}
      [] cls = "QQuickToolButton" ->
           {"QQuickToolButton", "QQuickButton", "QQuickAbstractButton",
            "QQuickControl", "QQuickItem", "QObject"}
      [] cls = "NavBUTTON_QMLTYPE_7" -> {"NavBUTTON_QMLTYPE_7", "QQuickItem", "QObject"}
      [] cls = "QQuickText" -> {"QQuickText", "QQuickImplicitSizeItem", "QQuickItem", "QObject"}

kButtonTypes ==
    {"QQuickAbstractButton", "QQuickButton", "QQuickToolButton", "QQuickCheckBox",
     "QQuickRadioButton", "QQuickSwitch", "QQuickMenuItem"}

\* Qt::CaseInsensitive on the letters of "Button".
ToLower(c) ==
    CASE c = "B" -> "b" [] c = "U" -> "u" [] c = "T" -> "t"
      [] c = "O" -> "o" [] c = "N" -> "n" [] OTHER -> c

\* QString::contains("Button", Qt::CaseInsensitive)
ContainsButton(name) ==
    LET needle == <<"b", "u", "t", "t", "o", "n">>
    IN  \E s \in 0..(Len(name) - Len(needle)) :
            \A k \in 1..Len(needle) : ToLower(name[s + k]) = needle[k]

ClassIsButtonLike(cls) ==
    \/ SuperClasses(cls) \cap kButtonTypes # {}
    \/ ContainsButton(Chars(cls))

AllClasses ==
    {"QQuickRectangle", "QQuickSwitch", "QQuickToolButton", "NavBUTTON_QMLTYPE_7",
     "QQuickText"}

\* The classification of every class, computed once.
ButtonLikeClasses == { cls \in AllClasses : ClassIsButtonLike(cls) }

isButtonLike(i) == i # NoItem /\ items[i].cls \in ButtonLikeClasses

----------------------------------------------------------------------------
(* findQuickItemAt *)

\* kDistEps = 0.75 px, in quarter pixels.
kDistEps == 3

\* kAreaEps = 1.0 square pixel, in square half pixels.
kAreaEps == 4

\* kButtonBoostPx = 4.0 px, in quarter pixels.
kButtonBoostPx == 16

\* sqrt(a) + c < sqrt(b), for naturals a, b and c, decided without roots.
SqrtLess(a, c, b) ==
    LET d == b - a - c * c
    IN  d > 0 /\ d * d > 4 * c * c * a

\* The square of QLineF(rect.center(), scenePos).length(), in quarter
\* pixels: the centre of a rectangle on the half-pixel grid lies on the
\* quarter-pixel grid.
DistSq(i, p) ==
    LET dx == (2 * items[i].x + items[i].w) - 2 * p.x
        dy == (2 * items[i].y + items[i].h) - 2 * p.y
    IN  dx * dx + dy * dy

\* rect.width() * rect.height()
Area(i) == items[i].w * items[i].h

\* getenv("FUNQ_MODE_PICK_LARGEST") compared with "1"; env is "unset" when
\* the variable is not set.
PreferLargestArea(env) == env # "unset" /\ env = "1"

\* A comparison that orders the children by address only.
SortLessByAddress(a, b) == a < b

\* std::sort of the children by z, equal z by address; the addresses of the
\* items ascend with their ids.
SortLess(a, b) ==
    IF items[a].z = items[b].z THEN a < b ELSE items[a].z < items[b].z

RECURSIVE SortedSeq(_)
SortedSeq(S) ==
    IF S = {} THEN << >>
    ELSE LET m == CHOOSE a \in S : \A b \in S \ {a} : SortLess(a, b)
         IN  <<m>> \o SortedSeq(S \ {m})

SortedChildren(i) == SortedSeq(ChildSet(i))

\* An isPickableItem that leaves out the containment test.
isPickableItemAnywhere(i, p) ==
    /\ i # NoItem
    /\ ~(~IsVisible(i) \/ ~IsEnabled(i) \/ items[i].opacity <= 0)

\* isPickableItem
isPickableItem(i, p) ==
    /\ i # NoItem
    /\ ~(~IsVisible(i) \/ ~IsEnabled(i) \/ items[i].opacity <= 0)
    /\ Contains(i, p)

\* QQuickItem::childAt: the last child of childItems() that is visible and
\* contains the point.
ChildAt(cur, p) ==
    LET hits == { c \in ChildSet(cur) : IsVisible(c) /\ Contains(c, p) }
    IN  IF hits = {} THEN NoItem
        ELSE CHOOSE c \in hits : \A d \in hits : d <= c

RECURSIVE Descend(_, _)
Descend(cur, p) ==
    LET next == ChildAt(cur, p)
    IN  IF next = NoItem THEN cur
        ELSE IF ~IsVisible(next) \/ ~IsEnabled(next) \/ items[next].opacity <= 0
             THEN cur
             ELSE Descend(next, p)

deepestItemUnderPoint(root, p) ==
    IF root = NoItem THEN NoItem
    ELSE IF ~IsVisible(root) \/ ~IsEnabled(root) \/ items[root].opacity <= 0
            \/ ~Contains(root, p)
         THEN NoItem
         ELSE Descend(root, p)

\* A promotion that never leaves the leaf.
promoteToLeaf(leaf) == leaf

RECURSIVE promoteFrom(_, _)
promoteFrom(it, leaf) ==
    IF it = NoItem THEN leaf
    ELSE IF isButtonLike(it) THEN it
         ELSE promoteFrom(items[it].parent, leaf)

\* A promotion that ends at the top of the parent chain when it meets no
\* button-like item.
RECURSIVE promoteToTopAncestor(_)
promoteToTopAncestor(leaf) ==
    IF isButtonLike(leaf) \/ items[leaf].parent = NoItem THEN leaf
    ELSE promoteToTopAncestor(items[leaf].parent)

promoteToButtonAncestor(leaf) == promoteFrom(leaf, leaf)

\* One pass of the selection loop's body: the candidate is better than the
\* current best (best = NoItem: bestDist is the largest qreal).
Better(cand, best, p, preferButtons, preferLargest) ==
    LET dist      == DistSq(cand, p)
        bestDist  == DistSq(best, p)
        candIsBtn == preferButtons /\ isButtonLike(cand)
        bestIsBtn == preferButtons /\ best # NoItem /\ isButtonLike(best)
        \* dist <= bestDist + kButtonBoostPx
        boosted   == /\ preferButtons /\ best # NoItem
                     /\ candIsBtn /\ ~bestIsBtn
                     /\ ~SqrtLess(bestDist, kButtonBoostPx, dist)
        \* the branch (!candIsBtn && bestIsBtn) assigns better = false, which
        \* it already is
        nearer    == best = NoItem \/ SqrtLess(dist, kDistEps, bestDist)
        tied      == /\ best # NoItem
                     /\ ~SqrtLess(dist, kDistEps, bestDist)
                     /\ ~SqrtLess(bestDist, kDistEps, dist)
        areaWins  == IF preferLargest
                     THEN Area(cand) > Area(best) + kAreaEps
                     ELSE Area(cand) + kAreaEps < Area(best)
    IN  \/ boosted
        \/ nearer
        \/ tied /\ (areaWins \/ (preferButtons /\ candIsBtn /\ ~bestIsBtn))

\* A loop body that keeps the first candidate it meets.
SelectStepFirst(best, cand, p, preferButtons, preferLargest) ==
    IF RectIsEmpty(cand) THEN best
    ELSE IF best = NoItem THEN cand ELSE best

\* The body of the loop over found: the best item after one more candidate.
SelectStep(best, cand, p, preferButtons, preferLargest) ==
    IF RectIsEmpty(cand) THEN best
    ELSE IF Better(cand, best, p, preferButtons, preferLargest) THEN cand
         ELSE best

\* bestItem after the first n candidates of found.
RECURSIVE SelectBest(_, _, _, _, _)
SelectBest(found, n, p, preferButtons, preferLargest) ==
    IF n = 0 THEN NoItem
    ELSE SelectStep(SelectBest(found, n - 1, p, preferButtons, preferLargest),
                    found[n], p, preferButtons, preferLargest)

\* A refinement block that does not look at preferButtons.
RefineAlways(bestItem, p, preferButtons) ==
    LET leaf == deepestItemUnderPoint(bestItem, p)
    IN  IF leaf = NoItem THEN bestItem
        ELSE LET button == promoteToButtonAncestor(leaf)
             IN  IF button # NoItem /\ button # bestItem THEN button
                 ELSE bestItem

\* The refinement block.
Refine(bestItem, p, preferButtons) ==
    IF ~preferButtons THEN bestItem
    ELSE LET leaf == deepestItemUnderPoint(bestItem, p)
         IN  IF leaf = NoItem THEN bestItem
             ELSE LET button == promoteToButtonAncestor(leaf)
                  IN  IF button # NoItem /\ button # bestItem THEN button
                      ELSE bestItem

RECURSIVE findQuickItemAt(_, _, _, _)

\* The hits of the children of item, visited from the last of the sorted
\* list (highest z) to the first.
RECURSIVE CollectFound(_, _, _, _, _)
CollectFound(children, idx, p, preferButtons, env) ==
    IF idx = 0 THEN << >>
    ELSE LET hit == findQuickItemAt(children[idx], p, preferButtons, env)
         IN  (IF hit # NoItem THEN <<hit>> ELSE << >>)
             \o CollectFound(children, idx - 1, p, preferButtons, env)

Found(item, p, preferButtons, env) ==
    LET children == SortedChildren(item)
    IN  CollectFound(children, Len(children), p, preferButtons, env)

\* A selection whose fallback returns the item untested.
SelectOrItem(item, found, p, preferButtons, env) ==
    LET bestItem == SelectBest(found, Len(found), p, preferButtons,
                               PreferLargestArea(env))
    IN  IF bestItem # NoItem THEN Refine(bestItem, p, preferButtons) ELSE item

\* What findQuickItemAt returns once found is collected.
Select(item, found, p, preferButtons, env) ==
    LET bestItem == SelectBest(found, Len(found), p, preferButtons,
                               PreferLargestArea(env))
    IN  IF bestItem # NoItem
        THEN Refine(bestItem, p, preferButtons)
        ELSE IF isPickableItem(item, p) THEN item ELSE NoItem

findQuickItemAt(item, p, preferButtons, env) ==
    IF item = NoItem THEN NoItem
    ELSE Select(item, Found(item, p, preferButtons, env), p, preferButtons, env)

\* bestItem after each pass of the selection loop over found.
SelectTrace(found, p, preferButtons, env) ==
    [n \in 1..Len(found) |->
        SelectBest(found, n, p, preferButtons, PreferLargestArea(env))]

----------------------------------------------------------------------------
(* Scenes the picker is run on *)

\* The largest z value of a scene item (the default is 0).
MaxZ == 1

\* Rectangles of scene items, in half pixels:
\*   wide  14 x 4 px, centre (7, 2) px      left  4 x 4 px, centre (2, 2) px
\*   strip  2 x 1 px, centre (7, 2) px      dot   1 x 1 px, centre (7, 2) px
\*   flat   0 x 4 px (empty)
RectWide  == Rect(0, 0, 28, 8)
RectLeft  == Rect(0, 0, 8, 8)
RectStrip == Rect(12, 3, 4, 2)
RectDot   == Rect(13, 3, 2, 2)
RectFlat  == Rect(4, 0, 0, 8)

RootRects == { RectWide, RectLeft }
ItemRects == { RectLeft, RectStrip, RectDot, RectFlat, RectWide }

\* Query points, in half pixels: the centre of left, a point of left 1 px
\* right of its centre, the common centre of wide/strip/dot, and a point
\* outside every rectangle.
ScenePoints == { Point(4, 4), Point(6, 4), Point(14, 4), Point(40, 4) }

EnvValues == { "unset", "1", "0" }

\* An item as the scene loader creates it.
PlainItem(par, r) ==
    [parent |-> par, alive |-> TRUE, x |-> r.x, y |-> r.y, w |-> r.w, h |-> r.h,
     z |-> 0, visible |-> TRUE, enabled |-> TRUE, opacity |-> 100,
     cls |-> "QQuickRectangle"]

\* What a scene may set differently from PlainItem, per item.
Settings ==
    { [visible |-> FALSE], [enabled |-> FALSE], [opacity |-> 0],
      [cls |-> "QQuickToolButton"] }
    \cup { [z |-> v] : v \in 1..MaxZ }

Apply(rec, set) == [f \in DOMAIN rec |-> IF f \in DOMAIN set THEN set[f] ELSE rec[f]]

Deviations == (1..3) \X Settings

\* No deviation, one, or two.
DeviationSets == { {} } \cup { {a, b} : a \in Deviations, b \in Deviations }

RECURSIVE ApplyAll(_, _, _)
ApplyAll(rec, i, devs) ==
    LET mine == { d \in devs : d[1] = i }
    IN  IF mine = {} THEN rec
        ELSE LET d == CHOOSE d \in mine : TRUE
             IN  ApplyAll(Apply(rec, d[2]), i, devs \ {d})

Scene(shape, rects, devs) ==
    [i \in Items |-> ApplyAll(PlainItem(shape[i], rects[i]), i, devs)]

Scenes ==
    { Scene(shape, <<r1, r2, r3, RectFlat>>, devs) :
        shape \in TreeShapes, r1 \in RootRects, r2 \in ItemRects, r3 \in ItemRects,
        devs \in DeviationSets }

\* Scenes of three sibling leaves under item 1, for the selection among
\* several candidates.  Rectangles whose centres lie 0.5 px and 1 px right of
\* the centre of wide:
\*   near  6 x 2 px, centre (7.5, 2) px     far  3 x 1 px, centre (8, 2) px
RectNear == Rect(9, 2, 12, 4)
RectFar  == Rect(13, 3, 6, 2)

SiblingShape == <<0, 1, 1, 1>>

SiblingRects == { RectWide, RectNear, RectFar, RectDot }

\* At most one sibling is given a z other than 0.
SiblingDeviationSets ==
    { {} } \cup { { <<i, [z |-> v]>> } : i \in 2..4, v \in 1..MaxZ }

SiblingScenes ==
    { Scene(SiblingShape, <<RectWide, r2, r3, r4>>, devs) :
        r2 \in SiblingRects, r3 \in SiblingRects, r4 \in SiblingRects,
        devs \in SiblingDeviationSets }

----------------------------------------------------------------------------
(* The desktop: objects, windows, the legacy widget *)

None == <<"none", 0>>
Widget == <<"widget", 1>>
Win(w) == <<"window", w>>
Item(i) == <<"item", i>>
\* A receiver that is neither a window nor a widget.
PlainObject == <<"object", 1>>

QPoint(x, y) == [x |-> x, y |-> y]
QRect(x, y, w, h) == [x |-> x, y |-> y, w |-> w, h |-> h]

\* QRect::contains(QPoint), for a rectangle in pixels.
QRectContains(r, g) ==
    /\ r.w > 0 /\ r.h > 0
    /\ r.x <= g.x /\ g.x <= r.x + r.w - 1
    /\ r.y <= g.y /\ g.y <= r.y + r.h - 1

\* qRound of a length given in half pixels: half pixels round up.
qRound(h) == (h + 1) \div 2

\* static_cast<int> of a length given in half pixels: truncation toward 0.
ToInt(h) == IF h >= 0 THEN h \div 2 ELSE -((-h) \div 2)

qMax(a, b) == IF a >= b THEN a ELSE b

\* The top-level windows: a QQuickWindow whose contentItem() is item 1, and
\* a QWindow without a scene.  QRect(window->mapToGlobal(QPoint(0, 0)),
\* window->size()), in pixels.
WindowIds == { "quick", "plain" }

WindowRect(w) ==
    IF w = "quick" THEN QRect(10, 10, 14, 4) ELSE QRect(20, 10, 10, 4)

IsQuickWindow(w) == w = "quick"

ContentItem(w) == IF w = "quick" /\ items[1].alive THEN 1 ELSE NoItem

\* The legacy widget: QRect(widget->mapToGlobal(rect.topLeft()), rect.size()).
WidgetRect == QRect(8, 10, 4, 4)

\* QApplication::widgetAt(globalPos)
widgetAt(g) ==
    IF widgetAlive /\ QRectContains(WidgetRect, g) THEN Widget ELSE None

\* The scene of the quick window: a 14 x 4 px content item, on it a 4 x 4 px
\* tool button at the origin, and in the button a 1 x 1 px label at
\* (1.5, 1.5) px.
RouterScene ==
    [i \in Items |->
        CASE i = 1 -> PlainItem(NoItem, RectWide)
          [] i = 2 -> [PlainItem(1, RectLeft) EXCEPT !.cls = "QQuickToolButton"]
          [] i = 3 -> [PlainItem(2, Rect(3, 3, 2, 2)) EXCEPT !.cls = "QQuickText"]
          [] i = 4 -> PlainItem(NoItem, RectFlat)]

\* The objects that exist.
AliveObjects ==
    { Item(i) : i \in { j \in Items : items[j].alive } }
    \cup { Win(w) : w \in { windows[k] : k \in 1..Len(windows) } }
    \cup (IF widgetAlive THEN { Widget } ELSE {})
    \cup { PlainObject }

----------------------------------------------------------------------------
(* Pick::computeHighlightTarget *)

NoCandidate ==
    [found |-> FALSE, rect |-> QRect(0, 0, 0, 0), target |-> None, pos |-> QPoint(0, 0)]

\* The decision on a visible window that contains the point.
WindowCandidate(w, g, buttonsOnly) ==
    LET rect      == WindowRect(w)
        windowPos == QPoint(g.x - rect.x, g.y - rect.y)
        scenePos  == Point(2 * windowPos.x, 2 * windowPos.y)
        content   == ContentItem(w)
        quickItem == IF IsQuickWindow(w) /\ content # NoItem
                     THEN findQuickItemAt(content, scenePos, buttonsOnly, envLargest)
                     ELSE NoItem
    IN  IF quickItem # NoItem /\ quickItem # content
        THEN [found  |-> TRUE,
              rect   |-> QRect(rect.x + qRound(items[quickItem].x),
                               rect.y + qRound(items[quickItem].y),
                               qMax(1, qRound(items[quickItem].w)),
                               qMax(1, qRound(items[quickItem].h))),
              target |-> Item(quickItem),
              pos    |-> QPoint(ToInt(scenePos.x - items[quickItem].x),
                                ToInt(scenePos.y - items[quickItem].y))]
        ELSE [found  |-> TRUE,
              rect   |-> rect,
              target |-> Win(w),
              pos    |-> QPoint(g.x - rect.x, g.y - rect.y)]

\* A loop over topLevelWindows() that does not test isVisible().
RECURSIVE WindowLoopAnyWindow(_, _, _)
WindowLoopAnyWindow(k, g, buttonsOnly) ==
    IF k > Len(windows) THEN NoCandidate
    ELSE IF ~QRectContains(WindowRect(windows[k]), g)
         THEN WindowLoopAnyWindow(k + 1, g, buttonsOnly)
         ELSE WindowCandidate(windows[k], g, buttonsOnly)

\* The loop over topLevelWindows(), from position k on.
RECURSIVE WindowLoop(_, _, _)
WindowLoop(k, g, buttonsOnly) ==
    IF k > Len(windows) THEN NoCandidate
    ELSE IF ~winVisible[windows[k]] THEN WindowLoop(k + 1, g, buttonsOnly)
         ELSE IF ~QRectContains(WindowRect(windows[k]), g)
              THEN WindowLoop(k + 1, g, buttonsOnly)
              ELSE WindowCandidate(windows[k], g, buttonsOnly)

m_hasWidgetStack == appKind = "widgets"

HasGuiApplication == appKind \in { "widgets", "gui" }

computeHighlightTarget(g, buttonsOnly) ==
    LET widget == IF m_hasWidgetStack THEN widgetAt(g) ELSE None
    IN  IF widget # None
        THEN [found  |-> TRUE,
              rect   |-> WidgetRect,
              target |-> widget,
              pos    |-> QPoint(g.x - WidgetRect.x, g.y - WidgetRect.y)]
        ELSE IF ~HasGuiApplication THEN NoCandidate
             ELSE WindowLoop(1, g, buttonsOnly)

----------------------------------------------------------------------------
(* The highlight overlays *)

\* A hide that toggles the visibility.
WidgetHideToggle(ov) == [ov EXCEPT !.visible = ~ov.visible]

\* WidgetHighlightOverlay::showRect: setGeometry, then show() or raise().
WidgetShowRect(ov, globalRect) ==
    LET placed == [ov EXCEPT !.geometry = globalRect]
    IN  IF ~placed.visible THEN [placed EXCEPT !.visible = TRUE] ELSE placed

WidgetHide(ov) == IF ov.visible THEN [ov EXCEPT !.visible = FALSE] ELSE ov

\* A showRect that shows the window where it already is.
WindowShowRectInPlace(ov, globalRect) ==
    IF ~ov.visible THEN [ov EXCEPT !.visible = TRUE] ELSE ov

\* WindowHighlightOverlay::showRect: setGeometry, then show() or
\* requestUpdate(), then renderOverlay().
WindowShowRect(ov, globalRect) ==
    LET placed == [ov EXCEPT !.geometry = globalRect]
    IN  IF ~placed.visible THEN [placed EXCEPT !.visible = TRUE] ELSE placed

WindowHide(ov) == IF ov.visible THEN [ov EXCEPT !.visible = FALSE] ELSE ov

\* Which overlay Pick::Pick created: m_highlightOverlay.
m_highlightOverlay ==
    IF appKind = "widgets" THEN "widget"
    ELSE IF appKind = "gui" THEN "window" ELSE "null"

showHighlight(ov, globalRect) ==
    IF m_highlightOverlay = "widget" THEN WidgetShowRect(ov, globalRect)
    ELSE IF m_highlightOverlay = "window" THEN WindowShowRect(ov, globalRect)
         ELSE ov

\* A hideHighlight that keeps the remembered target.
hideHighlightTargetKept == m_highlightTarget

\* m_highlightTarget after hideHighlight.
hideHighlightTarget == None

\* A hideHighlight that leaves the overlay alone.
hideHighlightNothing(ov) == ov

\* The overlay after hideHighlight.
hideHighlight(ov) ==
    IF m_highlightOverlay = "widget" THEN WidgetHide(ov)
    ELSE IF m_highlightOverlay = "window" THEN WindowHide(ov)
         ELSE ov

----------------------------------------------------------------------------
(* Pick::handleEvent *)

MouseTypes == { "MouseMove", "MouseButtonPress", "MouseButtonRelease" }

\* The keyboard modifiers an event may carry.
ModifierSets ==
    { {}, {"shift"}, {"ctrl", "shift"}, {"ctrl", "shift", "alt"} }

\* evt->globalPos(), in pixels: on the widget and the button; on the label,
\* beside the widget; on both windows, beside the button.  A point is on
\* nothing when the windows under it are hidden.
GlobalPoints == { QPoint(11, 11), QPoint(12, 12), QPoint(21, 12) }

\* evt->pos(): the position relative to the receiver.
EventPos(receiver, g) ==
    IF receiver[1] = "window"
    THEN QPoint(g.x - WindowRect(receiver[2]).x, g.y - WindowRect(receiver[2]).y)
    ELSE IF receiver = Widget
         THEN QPoint(g.x - WidgetRect.x, g.y - WidgetRect.y)
         ELSE g

\* The objects an event may be delivered to: the widget while there is one,
\* else the quick window, else an object that is neither.
Receivers ==
    IF appKind = "core" THEN { PlainObject }
    ELSE IF widgetAlive THEN { Widget } ELSE { Win("quick") }

\* last, before any event.  The fields type .. stale describe the last event
\* of any kind; overlayKept tells that the event's call of showHighlight or
\* hideHighlight left the overlay as it was; mouseShown and movePressShown
\* tell whether the last mouse
\* event, and the last move or press event, that handleEvent processed was in
\* highlight mode and met a candidate.
NoEvent ==
    [type |-> "none", mods |-> {}, globalPos |-> QPoint(0, 0), pos |-> QPoint(0, 0),
     receiver |-> None,
     hasCandidate |-> FALSE, candidate |-> NoCandidate, consumed |-> FALSE,
     stale |-> FALSE, overlayKept |-> FALSE, mouseShown |-> FALSE,
     movePressShown |-> FALSE]

\* Either modifier held.
CtrlOrShift(mods) == "shift" \in mods \/ "ctrl" \in mods

CtrlShift(mods) == "shift" \in mods /\ "ctrl" \in mods

\* The handler given the event's position whatever the target.
ReportedCallEventPos(target, pos, hasCandidate, candidate, receiver, evtPos) ==
    LET t == IF target # None THEN target
             ELSE IF hasCandidate THEN candidate.target ELSE receiver
    IN  [target |-> IF t = None THEN receiver ELSE t, pos |-> evtPos]

\* The handler given the remembered position whatever the target.
ReportedCallRememberedPos(target, pos, hasCandidate, candidate, receiver, evtPos) ==
    LET t == IF target # None THEN target
             ELSE IF hasCandidate THEN candidate.target ELSE receiver
    IN  [target |-> IF t = None THEN receiver ELSE t, pos |-> pos]

\* The target and the position given to the handler on a press.
ReportedCall(target, pos, hasCandidate, candidate, receiver, evtPos) ==
    LET t  == IF target # None THEN target
              ELSE IF hasCandidate THEN candidate.target ELSE receiver
        ps == IF target # None THEN pos
              ELSE IF hasCandidate THEN candidate.pos ELSE evtPos
    IN  IF t = None THEN [target |-> receiver, pos |-> evtPos]
        ELSE [target |-> t, pos |-> ps]

\* A handleEvent that consumes the press only.
ConsumedPressOnly(type, ctrlShift) == type = "MouseButtonPress" /\ ctrlShift

\* What handleEvent returns for a mouse event, m_handler set.
Consumed(type, ctrlShift) ==
    IF type = "MouseButtonPress" /\ ctrlShift THEN TRUE
    ELSE IF type = "MouseButtonRelease" /\ ctrlShift THEN TRUE
         ELSE FALSE

\* handleEvent on a mouse event, m_handler set; candidate is what
\* computeHighlightTarget returned.
HandleMouse(type, mods, g, receiver, candidate) ==
    LET ctrlShift     == CtrlShift(mods)
        highlightMode == ctrlShift
        hasCandidate  == candidate.found
        shown         == highlightMode /\ hasCandidate
        target        == IF shown THEN candidate.target ELSE hideHighlightTarget
        pos           == IF shown THEN candidate.pos ELSE m_highlightPos
        press         == type = "MouseButtonPress" /\ ctrlShift
        shownOverlay  == IF shown THEN showHighlight(overlay, candidate.rect)
                         ELSE hideHighlight(overlay)
    IN  /\ overlay' = shownOverlay
        /\ m_highlightTarget' = target
        /\ m_highlightPos' = pos
        /\ reported' = IF press
                       THEN << ReportedCall(IF highlightMode THEN target ELSE None, pos,
                                            hasCandidate, candidate, receiver,
                                            EventPos(receiver, g)) >>
                       ELSE << >>
        /\ last' = [type |-> type, mods |-> mods, globalPos |-> g,
                    pos |-> EventPos(receiver, g),
                    receiver |-> receiver, hasCandidate |-> hasCandidate,
                    candidate |-> candidate,
                    consumed |-> Consumed(type, ctrlShift),
                    stale |-> m_highlightTarget # None
                              /\ m_highlightTarget \notin AliveObjects,
                    overlayKept |-> shownOverlay = overlay,
                    mouseShown |-> ("ctrl" \in mods /\ "shift" \in mods /\ hasCandidate),
                    movePressShown |->
                        IF type = "MouseButtonRelease" THEN last.movePressShown
                        ELSE ("ctrl" \in mods /\ "shift" \in mods /\ hasCandidate)]

\* Pick::handleEvent(receiver, event) for a mouse event.
MouseEvent(type, mods, g, receiver) ==
    /\ IF m_handler
       THEN \E candidate \in { computeHighlightTarget(g, "alt" \in mods) } :
                HandleMouse(type, mods, g, receiver, candidate)
       ELSE /\ last' = [NoEvent EXCEPT !.type = type, !.mods = mods, !.globalPos = g,
                                       !.pos = EventPos(receiver, g),
                                       !.receiver = receiver]
            /\ reported' = << >>
            /\ UNCHANGED <<overlay, m_highlightTarget, m_highlightPos>>
    /\ UNCHANGED <<items, envLargest, pick, appKind, windows, winVisible,
                   widgetAlive, m_handler>>

\* Pick::handleEvent(receiver, event) for an event that is no mouse event.
OtherEvent(receiver) ==
    /\ last' = [NoEvent EXCEPT !.type = "KeyPress", !.receiver = receiver,
                                !.mouseShown = last.mouseShown,
                                !.movePressShown = last.movePressShown]
    /\ reported' = << >>
    /\ UNCHANGED <<items, envLargest, pick, appKind, windows, winVisible,
                   widgetAlive, m_handler, overlay, m_highlightTarget, m_highlightPos>>

----------------------------------------------------------------------------
(* The host destroys objects between events *)

\* How many objects the host may destroy.
MaxDestroyed == 1

Destroyed ==
    { Item(i) : i \in { j \in Items : ~items[j].alive } }
    \cup { Win(w) : w \in WindowIds \ { windows[k] : k \in 1..Len(windows) } }
    \cup (IF appKind = "widgets" /\ ~widgetAlive THEN { Widget } ELSE {})

RECURSIVE IsUnder(_, _)
IsUnder(i, a) ==
    i = a \/ (items[i].parent # NoItem /\ IsUnder(items[i].parent, a))

\* delete of a scene item: its child items go with it.
DestroyItem(i) ==
    /\ items[i].alive
    /\ items' = [j \in Items |->
                    IF IsUnder(j, i) THEN [items[j] EXCEPT !.alive = FALSE] ELSE items[j]]
    /\ UNCHANGED <<envLargest, pick, appKind, windows, winVisible, widgetAlive,
                   m_handler, overlay, m_highlightTarget, m_highlightPos, reported, last>>

DestroyWidget ==
    /\ widgetAlive
    /\ widgetAlive' = FALSE
    /\ UNCHANGED <<items, envLargest, pick, appKind, windows, winVisible,
                   m_handler, overlay, m_highlightTarget, m_highlightPos, reported, last>>

\* delete of the window without a scene: it leaves topLevelWindows().
DestroyWindow ==
    /\ \E k \in 1..Len(windows) : windows[k] = "plain"
    /\ windows' = SelectSeq(windows, LAMBDA w : w # "plain")
    /\ UNCHANGED <<items, envLargest, pick, appKind, winVisible, widgetAlive,
                   m_handler, overlay, m_highlightTarget, m_highlightPos, reported, last>>

Destroy ==
    /\ appKind # "core"
    /\ Cardinality(Destroyed) < MaxDestroyed
    /\ \/ \E i \in { 2, 3 } : DestroyItem(i)
       \/ DestroyWidget
       \/ DestroyWindow

----------------------------------------------------------------------------
(* The event router's specification *)

NoPick ==
    [root |-> NoItem, point |-> Point(0, 0), preferButtons |-> FALSE,
     found |-> << >>, trace |-> << >>, best |-> NoItem, result |-> NoItem]

InitOverlay == [visible |-> FALSE, geometry |-> QRect(0, 0, 0, 0)]

Init ==
    /\ items = RouterScene
    /\ envLargest = "unset"
    /\ pick = NoPick
    /\ m_handler \in BOOLEAN
    /\ appKind \in IF m_handler THEN { "widgets", "gui", "core" } ELSE { "gui" }
    /\ windows \in IF appKind = "core" THEN { << >> }
                   ELSE { <<"quick", "plain">>, <<"plain", "quick">> }
    /\ winVisible \in IF appKind = "core" THEN { [w \in WindowIds |-> FALSE] }
                      ELSE { f \in [WindowIds -> BOOLEAN] : \E w \in WindowIds : f[w] }
    /\ ~m_handler => /\ windows = <<"quick", "plain">>
                     /\ winVisible = [w \in WindowIds |-> TRUE]
    /\ widgetAlive = (appKind = "widgets")
    /\ overlay = InitOverlay
    /\ m_highlightTarget = None
    /\ m_highlightPos = QPoint(0, 0)
    /\ reported = << >>
    /\ last = NoEvent

Next ==
    \/ \E type \in MouseTypes, mods \in ModifierSets, g \in GlobalPoints,
          receiver \in Receivers : MouseEvent(type, mods, g, receiver)
    \/ \E receiver \in Receivers : OtherEvent(receiver)
    \/ Destroy

vars ==
    <<items, envLargest, pick, appKind, windows, winVisible, widgetAlive, m_handler,
      overlay, m_highlightTarget, m_highlightPos, reported, last>>

Spec == Init /\ [][Next]_vars

----------------------------------------------------------------------------
(* The picker's specification: findQuickItemAt on a family of scenes *)

InitPick ==
    /\ \/ items \in Scenes /\ envLargest \in { "unset", "1" }
       \/ items \in SiblingScenes /\ envLargest \in EnvValues
    /\ pick = NoPick
    /\ m_handler = TRUE
    /\ appKind = "core"
    /\ windows = << >>
    /\ winVisible = [w \in WindowIds |-> FALSE]
    /\ widgetAlive = FALSE
    /\ overlay = InitOverlay
    /\ m_highlightTarget = None
    /\ m_highlightPos = QPoint(0, 0)
    /\ reported = << >>
    /\ last = NoEvent

\* A call findQuickItemAt(root, scenePos, preferButtons) from outside, on a
\* scene that has not been picked on yet.
PickAt(root, p, preferButtons) ==
    /\ pick.root = NoItem
    /\ \E found \in { Found(root, p, preferButtons, envLargest) } :
       \E trace \in { SelectTrace(found, p, preferButtons, envLargest) } :
          pick' = [root |-> root, point |-> p, preferButtons |-> preferButtons,
                   found |-> found,
                   trace |-> trace,
                   best |-> IF found = << >> THEN NoItem ELSE trace[Len(found)],
                   result |-> Select(root, found, p, preferButtons, envLargest)]
    /\ UNCHANGED <<items, envLargest, appKind, windows, winVisible, widgetAlive,
                   m_handler, overlay, m_highlightTarget, m_highlightPos,
                   reported, last>>

PickRoots == { 1, 2 }

NextPick ==
    \E root \in PickRoots, p \in ScenePoints, preferButtons \in BOOLEAN :
        PickAt(root, p, preferButtons)

SpecPick == InitPick /\ [][NextPick]_vars

----------------------------------------------------------------------------
(* Properties of the event router *)

HighlightKeys(mods) == "ctrl" \in mods /\ "shift" \in mods

\* C1 (as amended): the overlay is visible exactly when the last mouse event
\* that handleEvent processed - a move, a press or a release - carried Ctrl
\* and Shift and the resolver found a candidate for it; in every other state
\* it is hidden.
C1_OverlayFollowsLastMouseEvent == overlay.visible <=> last.mouseShown

\* C1, witness: a release with Ctrl+Shift over a candidate has shown the
\* overlay.
C1_Witness ==
    /\ last.type = "MouseButtonRelease" /\ HighlightKeys(last.mods)
    /\ last.hasCandidate /\ overlay.visible

\* C1 as stated: the overlay is visible exactly when the last processed move
\* or press event carried Ctrl and Shift and met a candidate.
C1_AsStated == overlay.visible <=> last.movePressShown

\* C2: with a handler installed, the handler is called exactly once by a
\* press that carries Ctrl and Shift, and not at all by any other event; the
\* target it is given is never null.
C2_ReportedOncePerPress ==
    m_handler =>
        /\ Len(reported) =
               (IF last.type = "MouseButtonPress" /\ HighlightKeys(last.mods)
                THEN 1 ELSE 0)
        /\ \A k \in 1..Len(reported) : reported[k].target # None

\* C2, witness: a press with Ctrl+Shift that met no candidate was reported,
\* with the receiver.
C2_Witness ==
    /\ last.type = "MouseButtonPress" /\ HighlightKeys(last.mods)
    /\ ~last.hasCandidate
    /\ Len(reported) = 1 /\ reported[1].target = last.receiver

\* C5 (as amended): a release with Ctrl+Shift is consumed and calls no
\* handler, but it updates the highlight like any other mouse event: over a
\* candidate the overlay is shown on the candidate's rectangle and the
\* candidate and its local point are remembered; over no candidate the
\* overlay is hidden and the remembered target is cleared.
C5_ReleaseUpdatesHighlight ==
    (m_handler /\ last.type = "MouseButtonRelease" /\ HighlightKeys(last.mods)) =>
        /\ last.consumed
        /\ reported = << >>
        /\ IF last.hasCandidate
           THEN /\ m_highlightOverlay # "null" =>
                       overlay = [visible |-> TRUE, geometry |-> last.candidate.rect]
                /\ m_highlightTarget = last.candidate.target
                /\ m_highlightPos = last.candidate.pos
           ELSE /\ ~overlay.visible
                /\ m_highlightTarget = None

\* C5, witness: a release with Ctrl+Shift over a candidate moved the overlay
\* to the candidate and remembered it.
C5_Witness ==
    /\ m_handler /\ last.type = "MouseButtonRelease" /\ HighlightKeys(last.mods)
    /\ last.hasCandidate
    /\ overlay.visible /\ overlay.geometry = last.candidate.rect
    /\ m_highlightTarget = last.candidate.target

\* C5 as stated: a step that handles a release with Ctrl+Shift leaves the
\* overlay, the remembered target and the remembered point unchanged and
\* calls no handler.
C5_AsStated ==
    [][(m_handler /\ last'.type = "MouseButtonRelease" /\ HighlightKeys(last'.mods))
        => /\ overlay' = overlay
           /\ m_highlightTarget' = m_highlightTarget
           /\ m_highlightPos' = m_highlightPos
           /\ reported' = << >>]_vars

\* C6: on a press with Ctrl+Shift the handler is given the remembered
\* highlighted target with the remembered point if a target is remembered
\* when the call is made, else the candidate resolved for this press with
\* its local point, else the event's receiver with the event's position;
\* target and point come from the same source.
C6_ReportedSource ==
    (m_handler /\ last.type = "MouseButtonPress" /\ HighlightKeys(last.mods)) =>
        reported =
            << IF m_highlightTarget # None
               THEN [target |-> m_highlightTarget, pos |-> m_highlightPos]
               ELSE IF last.hasCandidate
                    THEN [target |-> last.candidate.target, pos |-> last.candidate.pos]
                    ELSE [target |-> last.receiver, pos |-> last.pos] >>

\* C6, witness: a press reported the remembered target, a scene item, at a
\* point that is not the event's own position.
C6_Witness ==
    /\ m_handler /\ last.type = "MouseButtonPress" /\ HighlightKeys(last.mods)
    /\ m_highlightTarget # None /\ m_highlightTarget[1] = "item"
    /\ Len(reported) = 1
    /\ reported[1] = [target |-> m_highlightTarget, pos |-> m_highlightPos]
    /\ reported[1].pos # last.pos

\* C7: whatever the host destroyed between the events, the target given to
\* the handler by a press exists when the press is handled.  (A step that
\* leaves the set of objects unchanged is an event; the host's steps shrink
\* it.)
C7_ReportedTargetAlive ==
    [][(AliveObjects' = AliveObjects /\ reported' # << >>)
        => reported'[1].target \in AliveObjects]_vars

\* C7, witness: a press with Ctrl+Shift arrived while the remembered target
\* was destroyed, and was reported with an existing target.
C7_Witness ==
    /\ last.type = "MouseButtonPress" /\ last.stale
    /\ Len(reported) = 1 /\ reported[1].target \in AliveObjects

\* C11 (as amended): with a handler installed, handleEvent returns true
\* exactly for a press or a release that carries both Ctrl and Shift; moves,
\* presses and releases lacking Ctrl or Shift, and events that are no mouse
\* events return false.  Without a handler every event returns false.
C11_ConsumedWithHandler ==
    last.consumed <=>
        ( /\ m_handler
          /\ last.type \in { "MouseButtonPress", "MouseButtonRelease" }
          /\ HighlightKeys(last.mods) )

\* C11, witness: a release with Ctrl, Shift and Alt was consumed.
C11_Witness ==
    /\ m_handler /\ last.type = "MouseButtonRelease"
    /\ last.mods = { "ctrl", "shift", "alt" }
    /\ last.consumed

\* C11 as stated: an event is consumed exactly when it is a press or a
\* release with Ctrl and Shift, in every state of the picker.
C11_AsStated ==
    last.consumed <=>
        ( /\ last.type \in { "MouseButtonPress", "MouseButtonRelease" }
          /\ HighlightKeys(last.mods) )

\* The positions in topLevelWindows() of the visible windows whose screen
\* rectangle contains the point.
WindowsAt(g) ==
    { k \in 1..Len(windows) :
        winVisible[windows[k]] /\ QRectContains(WindowRect(windows[k]), g) }

\* What the resolver is to return for a point that is on no widget.
ResolvedOnWindows(c, g, buttonsOnly) ==
    IF WindowsAt(g) = {} THEN ~c.found
    ELSE LET k      == CHOOSE k \in WindowsAt(g) : \A j \in WindowsAt(g) : k <= j
             w      == windows[k]
             origin == QPoint(WindowRect(w).x, WindowRect(w).y)
             picked == IF IsQuickWindow(w) /\ ContentItem(w) # NoItem
                       THEN findQuickItemAt(ContentItem(w),
                                            Point(2 * (g.x - origin.x), 2 * (g.y - origin.y)),
                                            buttonsOnly, envLargest)
                       ELSE NoItem
         IN  /\ c.found
             /\ IF picked # NoItem /\ picked # ContentItem(w)
                THEN c.target = Item(picked)
                ELSE c = [found |-> TRUE, rect |-> WindowRect(w), target |-> Win(w),
                          pos |-> QPoint(g.x - origin.x, g.y - origin.y)]

\* C14: when no widget is under the global point of a mouse event, the
\* resolver decides on the first visible window of topLevelWindows() whose
\* rectangle contains the point: it gives the picked scene item if the
\* picker returns one other than the content item, else the window with its
\* rectangle and the point relative to its top-left; later windows are not
\* consulted, and no candidate is returned only if no visible window
\* contains the point.  (A step that leaves the objects unchanged and ends
\* with a mouse event is a run of handleEvent.)
C14_FirstVisibleWindowDecides ==
    [][( /\ m_handler /\ last'.type \in MouseTypes
         /\ items' = items /\ windows' = windows /\ widgetAlive' = widgetAlive
         /\ ~(m_hasWidgetStack /\ widgetAt(last'.globalPos) # None) )
        => ResolvedOnWindows(last'.candidate, last'.globalPos, "alt" \in last'.mods)]_vars

\* C14, witness: the point is on both visible windows, the window without a
\* scene comes first and is the candidate, and the quick window is not
\* consulted.
C14_Witness ==
    /\ m_handler /\ last.type \in MouseTypes
    /\ windows = <<"plain", "quick">>
    /\ WindowsAt(last.globalPos) = {1, 2}
    /\ last.candidate = [found |-> TRUE, rect |-> WindowRect("plain"),
                         target |-> Win("plain"),
                         pos |-> QPoint(last.globalPos.x - 20, last.globalPos.y - 10)]

\* C15 as stated: after a mouse event that lacks Ctrl+Shift or meets no
\* candidate, the remembered target is cleared and the remembered point is
\* reset to what it was before any highlight.
C15_AsStated ==
    ( /\ m_handler /\ last.type \in MouseTypes
      /\ ~(HighlightKeys(last.mods) /\ last.hasCandidate) )
    => /\ m_highlightTarget = None
       /\ m_highlightPos = QPoint(0, 0)

\* C16: without a widget stack and without a windowing system the resolver
\* returns no candidate for any event and the overlay is never shown; a
\* press with Ctrl+Shift is still consumed and reported exactly once, with
\* the event's receiver and the event's own position.
C16_NoApplicationFailsClosed ==
    (m_handler /\ ~m_hasWidgetStack /\ ~HasGuiApplication) =>
        /\ ~last.hasCandidate
        /\ overlay = InitOverlay
        /\ m_highlightTarget = None
        /\ (last.type = "MouseButtonPress" /\ HighlightKeys(last.mods)) =>
               /\ last.consumed
               /\ reported = << [target |-> last.receiver, pos |-> last.pos] >>

\* C16, witness: in that environment a press with Ctrl+Shift was consumed
\* and reported with its receiver at its own position.
C16_Witness ==
    /\ m_handler /\ ~m_hasWidgetStack /\ ~HasGuiApplication
    /\ last.type = "MouseButtonPress" /\ HighlightKeys(last.mods)
    /\ last.consumed
    /\ last.pos = QPoint(12, 12)
    /\ reported = << [target |-> PlainObject, pos |-> QPoint(12, 12)] >>

\* Rectangles an overlay is shown on: the widget, the windows, the button.
OverlayRects ==
    { WidgetRect, WindowRect("quick"), WindowRect("plain"), QRect(10, 10, 4, 4) }

\* C17: both overlay variants are idempotent.  From every state of the
\* overlay, showRect(r) twice leaves what showRect(r) once leaves, visible
\* with geometry r; hide() twice leaves what hide() once leaves, hidden; and
\* hide() on a hidden overlay changes nothing.
C17_OverlayIdempotent ==
    /\ \A r \in OverlayRects :
          /\ WidgetShowRect(overlay, r) = [visible |-> TRUE, geometry |-> r]
          /\ WidgetShowRect(WidgetShowRect(overlay, r), r) = WidgetShowRect(overlay, r)
          /\ WindowShowRect(overlay, r) = [visible |-> TRUE, geometry |-> r]
          /\ WindowShowRect(WindowShowRect(overlay, r), r) = WindowShowRect(overlay, r)
    /\ ~WidgetHide(overlay).visible
    /\ WidgetHide(WidgetHide(overlay)) = WidgetHide(overlay)
    /\ ~WindowHide(overlay).visible
    /\ WindowHide(WindowHide(overlay)) = WindowHide(overlay)
    /\ ~overlay.visible => (WidgetHide(overlay) = overlay /\ WindowHide(overlay) = overlay)

\* C17, witness: an event showed the overlay on the rectangle it was
\* already shown on, and the overlay is as it was.
C17_Witness ==
    /\ m_handler /\ last.mouseShown /\ last.overlayKept
    /\ overlay = [visible |-> TRUE, geometry |-> last.candidate.rect]

----------------------------------------------------------------------------
(* Properties of the scene-graph picker *)

\* The item passes none of the tests of isPickableItem's first line.
Unpickable(i) == ~IsVisible(i) \/ ~IsEnabled(i) \/ items[i].opacity <= 0

\* C3 as stated: the element findQuickItemAt returns is never an element
\* with opacity 0, visible = false or enabled = false, also under
\* preferButtons.
C3_AsStated ==
    pick.result # NoItem =>
        /\ items[pick.result].opacity > 0
        /\ IsVisible(pick.result)
        /\ IsEnabled(pick.result)

\* C4 as stated: under preferButtons, a pass of the selection loop replaces
\* a button-like best by a candidate that is not button-like only if the
\* candidate's distance is smaller than the best's by more than
\* kButtonBoostPx.
C4_AsStated ==
    \A n \in 2..Len(pick.trace) :
        LET best == pick.trace[n - 1]
            cand == pick.found[n]
        IN  ( /\ pick.preferButtons
              /\ best # NoItem /\ isButtonLike(best)
              /\ ~isButtonLike(cand)
              /\ pick.trace[n] = cand )
            => SqrtLess(DistSq(cand, pick.point), kButtonBoostPx,
                        DistSq(best, pick.point))

\* The root given to findQuickItemAt fails the test of step 1.
RootFails ==
    /\ pick.root # NoItem
    /\ Unpickable(pick.root) \/ ~Contains(pick.root, pick.point)

\* C8 (as amended): when root is not visible, not enabled, has opacity <= 0
\* or does not contain the point, findQuickItemAt returns no element exactly
\* when no child subtree of root yields a candidate with a non-empty
\* rectangle; when one does, an element is returned although root fails.
C8_RootFailsThenChildrenDecide ==
    RootFails => (pick.result = NoItem <=> pick.best = NoItem)

\* C8, witness: a root of opacity 0 that contains the point, without a
\* candidate below it, yields no element.
C8_Witness ==
    /\ RootFails /\ items[pick.root].opacity = 0
    /\ Contains(pick.root, pick.point)
    /\ pick.best = NoItem /\ pick.result = NoItem

\* C8 as stated: when root fails the test, no element is returned, whatever
\* its descendants.
C8_AsStated == RootFails => pick.result = NoItem

\* Two leaf siblings, the only children of the root given, both pickable at
\* the point, with the same centre; a has the smaller area.
SiblingTie(a, b) ==
    /\ pick.root # NoItem
    /\ a # b /\ ChildSet(pick.root) = {a, b}
    /\ ChildSet(a) = {} /\ ChildSet(b) = {}
    /\ isPickableItem(a, pick.point) /\ isPickableItem(b, pick.point)
    /\ 2 * items[a].x + items[a].w = 2 * items[b].x + items[b].w
    /\ 2 * items[a].y + items[a].h = 2 * items[b].y + items[b].h
    /\ Area(a) < Area(b)

\* Neither the item nor one of its ancestors is button-like.
NoButtonFrom(i) == \A k \in Items : IsUnder(i, k) => ~isButtonLike(k)

\* C9 (as amended): of two pickable leaf siblings with the same centre whose
\* areas differ by more than kAreaEps (1 square pixel), findQuickItemAt
\* returns the smaller when FUNQ_MODE_PICK_LARGEST is unset and the larger
\* when it is "1", whichever is higher in z - provided preferButtons is unset
\* or neither sibling nor any of their ancestors is button-like.
C9_AreaTieBreak ==
    pick.root # NoItem =>
        \A a \in ChildSet(pick.root), b \in ChildSet(pick.root) :
            ( /\ SiblingTie(a, b)
              /\ Area(b) - Area(a) > kAreaEps
              /\ ~pick.preferButtons \/ (NoButtonFrom(a) /\ NoButtonFrom(b)) )
            => /\ envLargest = "unset" => pick.result = a
               /\ envLargest = "1" => pick.result = b

\* C9, witness: the larger sibling is higher in z and visited first, and the
\* smaller one is returned.
C9_Witness ==
    \E a \in Items, b \in Items :
        /\ SiblingTie(a, b) /\ Area(b) - Area(a) > kAreaEps
        /\ ~pick.preferButtons /\ envLargest = "unset"
        /\ items[b].z > items[a].z
        /\ pick.found = <<b, a>>
        /\ pick.result = a

\* C9 as stated: the same for every pair of differing areas and either value
\* of preferButtons.
C9_AsStated ==
    \A a \in Items, b \in Items :
        SiblingTie(a, b)
        => /\ envLargest = "unset" => pick.result = a
           /\ envLargest = "1" => pick.result = b

\* The button-like items among an item and its ancestors.
ButtonsFrom(i) == { k \in Items : IsUnder(i, k) /\ isButtonLike(k) }

\* The nearest of them.
NearestButtonFrom(i) == CHOOSE k \in ButtonsFrom(i) : \A m \in ButtonsFrom(i) : IsUnder(k, m)

\* dist(a) - dist(b) > kButtonBoostPx
FartherBeyondBoost(a, b) ==
    SqrtLess(DistSq(b, pick.point), kButtonBoostPx, DistSq(a, pick.point))

Subtree == { i \in Items : pick.root # NoItem /\ items[i].alive /\ IsUnder(i, pick.root) }

\* The point lies outside every visible item of the tree.
OutsideEveryVisible ==
    /\ pick.root # NoItem
    /\ \A i \in Subtree : IsVisible(i) => ~Contains(i, pick.point)

\* C12: when the point lies outside the bounds of every visible item of the
\* tree under root, findQuickItemAt returns no item, for both values of
\* preferButtons.
C12_OutsideYieldsNothing == OutsideEveryVisible => pick.result = NoItem

\* C12, witness: under preferButtons the point lies inside an item that is
\* not visible and outside every visible one, and nothing is returned.
C12_Witness ==
    /\ OutsideEveryVisible /\ pick.preferButtons
    /\ \E i \in Subtree : ~IsVisible(i) /\ Contains(i, pick.point)
    /\ \E i \in Subtree : IsVisible(i) /\ isButtonLike(i)
    /\ pick.result = NoItem

\* l is a visible, enabled, fully opaque leaf of the tree that contains the
\* point, and the only other visible items of the tree that contain the
\* point are ancestors of l.
LoneLeaf(l) ==
    /\ l \in Subtree
    /\ ChildSet(l) = {}
    /\ isPickableItem(l, pick.point) /\ items[l].opacity = 100
    /\ \A i \in Subtree \ {l} :
           (IsVisible(i) /\ Contains(i, pick.point)) => IsUnder(l, i)

\* C13 (as amended): for a point inside exactly one visible, enabled, fully
\* opaque leaf, and otherwise only inside ancestors of that leaf,
\* findQuickItemAt returns the leaf - provided preferButtons is unset, or
\* the leaf is button-like, or no ancestor of the leaf is button-like.
C13_LoneLeafReturned ==
    \A l \in Items :
        ( /\ LoneLeaf(l)
          /\ ~pick.preferButtons \/ isButtonLike(l) \/ ButtonsFrom(l) = {} )
        => pick.result = l

\* C13, witness: under preferButtons a button-like leaf below a button-like
\* parent is returned itself.
C13_Witness ==
    \E l \in Items :
        /\ LoneLeaf(l) /\ pick.preferButtons
        /\ l # pick.root
        /\ isButtonLike(l) /\ isButtonLike(items[l].parent)
        /\ pick.result = l

\* C13 as stated: for a point inside exactly one such leaf, findQuickItemAt
\* returns the leaf, whatever preferButtons is.
C13_AsStated == \A l \in Items : LoneLeaf(l) => pick.result = l

\* The candidates of found with a non-empty rectangle.
Candidates == { pick.found[n] : n \in { m \in 1..Len(pick.found) : ~RectIsEmpty(pick.found[m]) } }

\* C18 as stated: with preferButtons unset, the distance of the selected
\* candidate exceeds the distance of no candidate by more than kDistEps.
C18_AsStated ==
    (pick.root # NoItem /\ ~pick.preferButtons /\ pick.best # NoItem) =>
        \A c \in Candidates :
            ~SqrtLess(DistSq(c, pick.point), kDistEps, DistSq(pick.best, pick.point))

\* C19 as stated: an item returned by findQuickItemAt(root, ...) is root or
\* a descendant of root, for every root, point and value of preferButtons.
C19_AsStated ==
    (pick.root # NoItem /\ pick.result # NoItem) => IsUnder(pick.result, pick.root)

\* No item of the tree under root, and no ancestor of root, is button-like.
NoButtonAround ==
    /\ pick.root # NoItem
    /\ \A i \in Items :
           (IsUnder(i, pick.root) \/ IsUnder(pick.root, i)) => ~isButtonLike(i)

\* C20: when no item of the tree and no ancestor of root is button-like,
\* findQuickItemAt returns the same item with preferButtons set as with
\* preferButtons unset.
C20_SameWithoutButtons ==
    NoButtonAround =>
        pick.result = findQuickItemAt(pick.root, pick.point, ~pick.preferButtons,
                                      envLargest)

\* C20, witness: under preferButtons, among several candidates none of which
\* is button-like, a child of root is returned, the one returned without
\* preferButtons.
C20_Witness ==
    /\ NoButtonAround /\ pick.preferButtons
    /\ Len(pick.found) >= 2
    /\ pick.result # NoItem /\ pick.result # pick.root
    /\ pick.result = findQuickItemAt(pick.root, pick.point, FALSE, envLargest)

\* What the recursion returns for a child of root.
HitOf(c) == findQuickItemAt(c, pick.point, pick.preferButtons, envLargest)

\* The children of root whose subtree yields a hit.
HitChildren ==
    IF pick.root = NoItem THEN {}
    ELSE { c \in ChildSet(pick.root) : HitOf(c) # NoItem }

\* Two hits are fully tied: distances within kDistEps, areas within
\* kAreaEps, and under preferButtons the same button-likeness.
FullyTied(x, y) ==
    /\ ~RectIsEmpty(x) /\ ~RectIsEmpty(y)
    /\ ~SqrtLess(DistSq(x, pick.point), kDistEps, DistSq(y, pick.point))
    /\ ~SqrtLess(DistSq(y, pick.point), kDistEps, DistSq(x, pick.point))
    /\ Area(x) - Area(y) <= kAreaEps /\ Area(y) - Area(x) <= kAreaEps
    /\ pick.preferButtons => (isButtonLike(x) <=> isButtonLike(y))

\* cand is strictly better than best on distance, on area among equal
\* distances, or by the button rule.
StrictlyBetter(cand, best) ==
    LET dc == DistSq(cand, pick.point)
        db == DistSq(best, pick.point)
    IN  \/ SqrtLess(dc, kDistEps, db)
        \/ /\ ~SqrtLess(db, kDistEps, dc)
           /\ IF PreferLargestArea(envLargest)
              THEN Area(cand) > Area(best) + kAreaEps
              ELSE Area(cand) + kAreaEps < Area(best)
        \/ /\ pick.preferButtons /\ isButtonLike(cand) /\ ~isButtonLike(best)
           /\ ~SqrtLess(db, kButtonBoostPx, dc)

====
